---- MODULE Spec2Model ----
(***************************************************************************)
(* Model of src/lib/offtarget/search.c: guide ingest, FASTA reference      *)
(* loading, validity mask, the grouped matching kernel (AVX2 and scalar    *)
(* backends), the OpenMP loop over guide groups and the output rows.       *)
(*                                                                         *)
(* Bytes are one-character strings; C strings and buffers are sequences    *)
(* of bytes.  C offsets are 0-based: At(s, p) reads s[p].                  *)
(***************************************************************************)
EXTENDS Integers, Sequences, FiniteSets, TLC

VARIABLES
    \* load_guides
    guides_file,      \* the lines of the guide file, each with its terminator
    gline,            \* number of lines getline() has returned so far
    guides,           \* Guide array: [gene, sequence, length]
    max_len,          \* running maximum guide length
    gstatus,          \* "header", "rows", "ok" (count returned), "error" (-1)
    \* load_reference_sequence
    ref_file,         \* the lines of the FASTA file
    rline,            \* number of lines getline() has returned so far
    buffer,           \* Buffer.data[0 .. length)
    transcripts,      \* TranscriptInfo array
    current,          \* index+1 of *current in transcripts, 0 when NULL
    first_sequence,
    rstatus,          \* "lines", "ok", "error" (exit(EXIT_FAILURE))
    \* one call of process_group_avx2 / process_group_scalar
    use_avx2,
    valid_pos,        \* result of compute_valid_positions
    pos,
    transcript_idx,
    next_boundary,
    local_counts,
    mm0_hits,
    counted,          \* history: <<j, pos, mismatches>> of every local_counts[j][mm]++
    kstatus,          \* "scan", "done"
    \* the parallel loop of main and the output rows
    nthreads,
    pending,          \* loop iterations (guide groups) not yet handed to a thread
    workers,          \* per thread: [pc, group, j, local]
    results,          \* GuideResult array
    writes,           \* history: how many times each result slot was written
    out,              \* rows written to the output file
    \* main from entry to exit
    mpc,              \* main's position; "exit_ok", "exit_fail" when it has left
    out_file          \* the output file: "absent", "open", "closed"

gvars == <<guides_file, gline, guides, max_len, gstatus>>
rvars == <<ref_file, rline, buffer, transcripts, current, first_sequence, rstatus>>
kvars == <<use_avx2, valid_pos, pos, transcript_idx, next_boundary, local_counts,
           mm0_hits, counted, kstatus>>
pvars == <<nthreads, pending, workers, results, writes, out>>
mvars == <<mpc, out_file>>
vars == <<gvars, rvars, kvars, pvars, mvars>>

----------------------------------------------------------------------------
(* Program constants *)

PAD_WIDTH == 32
MAX_GUIDE_LEN == 30
MAX_MISMATCHES == 5
GROUP_SIZE == 4
SENTINEL_CHAR == "X"
GENE_CAP == 255

(* Bounds of the model *)

MaxGuideRows == 2
MaxFastaLines == 3
MaxKernelGuides == 2
MaxKernelRecords == 2
MaxParGuides == 6
MaxThreads == 2
MaxMaskLen == 5

----------------------------------------------------------------------------
(* Bytes and C strings *)

LF == "\n"
CR == "\r"
TAB == "\t"

At(s, p) == s[p + 1]

Min(a, b) == IF a < b THEN a ELSE b

\* isspace() in the C locale, over the bytes the inputs use
isspace(c) == c \in {" ", TAB, LF, CR}

\* strcspn(s, reject): the length of the longest prefix free of reject bytes
strcspn(s, reject) ==
    IF \E i \in 1..Len(s) : s[i] \in reject
    THEN (CHOOSE i \in 1..Len(s) :
             s[i] \in reject /\ \A j \in 1..(i - 1) : s[j] \notin reject) - 1
    ELSE Len(s)

RECURSIVE SkipLeadingSpace(_)
SkipLeadingSpace(s) ==
    IF s # <<>> /\ isspace(Head(s)) THEN SkipLeadingSpace(Tail(s)) ELSE s

RECURSIVE DropTrailingSpace(_)
DropTrailingSpace(s) ==
    IF s # <<>> /\ isspace(s[Len(s)])
    THEN DropTrailingSpace(SubSeq(s, 1, Len(s) - 1)) ELSE s

trim_whitespace_inplace(s) == DropTrailingSpace(SkipLeadingSpace(s))

normalize_base(c) ==
    CASE c \in {"A", "a"} -> "A"
      [] c \in {"C", "c"} -> "C"
      [] c \in {"G", "g"} -> "G"
      [] c \in {"T", "t", "U", "u"} -> "T"
      [] OTHER -> "N"

NormalizeSeq(s) == [i \in 1..Len(s) |-> normalize_base(s[i])]

Rep(c, n) == [i \in 1..n |-> c]

----------------------------------------------------------------------------
(* load_guides: one data row *)

\* strsep(&cursor, ","): the token before the first comma and the rest
\* (rest = <<"NULL">> marks cursor == NULL: there was no comma)
NoCursor == <<"NULL">>
strsep(s) ==
    LET n == strcspn(s, {","}) IN
    IF n = Len(s) THEN [token |-> s, rest |-> NoCursor]
    ELSE [token |-> SubSeq(s, 1, n), rest |-> SubSeq(s, n + 2, Len(s))]

\* the sequence cell as the loader takes it: leading whitespace skipped, cut
\* at the first of , CR LF
SequenceCell(field) ==
    LET s == SkipLeadingSpace(field) IN SubSeq(s, 1, strcspn(s, {",", CR, LF}))

\* the loop body with the length test of line 332 lost: a long row is dropped
guide_row_drops_long(line) ==
    IF Len(line) <= 1 THEN [kind |-> "skip"]
    ELSE LET first == strsep(line) IN
         IF first.rest = NoCursor THEN [kind |-> "skip"]
         ELSE LET gene == trim_whitespace_inplace(first.token)
                  sequence == SequenceCell(strsep(first.rest).token)
                  len == Len(sequence)
              IN  IF len <= 0 \/ len > MAX_GUIDE_LEN THEN [kind |-> "skip"]
                  ELSE [kind |-> "guide",
                        guide |-> [gene |-> SubSeq(gene, 1, Min(Len(gene), GENE_CAP)),
                                   sequence |-> NormalizeSeq(sequence),
                                   length |-> len]]

\* outcome of the loop body for one line: "skip" (continue), "bad" (return -1)
\* or "guide" with the stored Guide
guide_row(line) ==
    IF Len(line) <= 1 THEN [kind |-> "skip"]
    ELSE LET first == strsep(line) IN
         IF first.rest = NoCursor THEN [kind |-> "skip"]
         ELSE LET gene == trim_whitespace_inplace(first.token)
                  sequence == SequenceCell(strsep(first.rest).token)
                  len == Len(sequence)
              IN  IF len <= 0 THEN [kind |-> "skip"]
                  ELSE IF len > MAX_GUIDE_LEN THEN [kind |-> "bad"]
                  ELSE [kind |-> "guide",
                        guide |-> [gene |-> SubSeq(gene, 1, Min(Len(gene), GENE_CAP)),
                                   sequence |-> NormalizeSeq(sequence),
                                   length |-> len]]

LoadGuidesHeader ==
    /\ gstatus = "header"
    /\ IF Len(guides_file) = 0
       THEN gstatus' = "error" /\ gline' = gline
       ELSE gstatus' = "rows" /\ gline' = 1
    /\ UNCHANGED <<guides_file, guides, max_len>>

LoadGuidesRow ==
    /\ gstatus = "rows"
    /\ gline < Len(guides_file)
    /\ LET r == guide_row(guides_file[gline + 1]) IN
       /\ gline' = gline + 1
       /\ CASE r.kind = "skip" -> UNCHANGED <<guides, max_len, gstatus>>
            [] r.kind = "bad" ->
                 guides' = <<>> /\ gstatus' = "error" /\ UNCHANGED max_len
            [] r.kind = "guide" ->
                 /\ guides' = Append(guides, r.guide)
                 /\ max_len' = IF r.guide.length > max_len THEN r.guide.length ELSE max_len
                 /\ UNCHANGED gstatus
    /\ UNCHANGED guides_file

LoadGuidesEnd ==
    /\ gstatus = "rows"
    /\ gline = Len(guides_file)
    /\ gstatus' = IF Len(guides) = 0 THEN "error" ELSE "ok"
    /\ UNCHANGED <<guides_file, gline, guides, max_len>>

\* load_guides as a whole: the state the loop leaves, then the return value
RECURSIVE load_guides_rows(_, _, _)
load_guides_rows(file, i, acc) ==
    IF i > Len(file) THEN acc
    ELSE LET r == guide_row(file[i]) IN
         CASE r.kind = "skip" -> load_guides_rows(file, i + 1, acc)
           [] r.kind = "bad" -> [acc EXCEPT !.status = "error", !.guides = <<>>]
           [] r.kind = "guide" ->
                load_guides_rows(file, i + 1,
                    [acc EXCEPT !.guides = Append(@, r.guide),
                                !.max_len = IF r.guide.length > @ THEN r.guide.length ELSE @])

load_guides(file) ==
    IF Len(file) = 0 THEN [status |-> "error", guides |-> <<>>, max_len |-> 0]
    ELSE LET acc == load_guides_rows(file, 2, [status |-> "rows", guides |-> <<>>, max_len |-> 0])
         IN  IF acc.status = "error" THEN acc
             ELSE [acc EXCEPT !.status = IF Len(acc.guides) = 0 THEN "error" ELSE "ok"]

----------------------------------------------------------------------------
(* parse_fasta_header *)

UNKNOWN_ID == <<"U", "N", "K", "N", "O", "W", "N">>
UNKNOWN_GENE == <<"U", "n", "k", "n", "o", "w", "n">>

RECURSIVE StripLineEnd(_)
StripLineEnd(s) ==
    IF s # <<>> /\ s[Len(s)] \in {LF, CR}
    THEN StripLineEnd(SubSeq(s, 1, Len(s) - 1)) ELSE s

RECURSIVE SkipDelims(_)
SkipDelims(s) == IF s # <<>> /\ Head(s) = "|" THEN SkipDelims(Tail(s)) ELSE s

\* the tokens successive strtok_r(.., "|", ..) calls return: strtok_r skips
\* every leading delimiter, so a token is never empty
RECURSIVE strtok_r(_)
strtok_r(s) ==
    LET t == SkipDelims(s) IN
    IF t = <<>> THEN <<>>
    ELSE LET n == strcspn(t, {"|"}) IN
         <<SubSeq(t, 1, n)>> \o strtok_r(SubSeq(t, n + 2, Len(t)))

parse_fasta_header(line) ==
    LET body == StripLineEnd(IF Head(line) = ">" THEN Tail(line) ELSE line)
        tokens == strtok_r(body)
    IN  [transcript_id |-> IF Len(tokens) >= 1
                           THEN trim_whitespace_inplace(tokens[1]) ELSE UNKNOWN_ID,
         gene_symbol |-> IF Len(tokens) >= 6
                         THEN trim_whitespace_inplace(tokens[6]) ELSE UNKNOWN_GENE]

----------------------------------------------------------------------------
(* load_reference_sequence *)

\* a run of sentinels one byte short
append_sentinel_short(buf) == buf \o Rep(SENTINEL_CHAR, PAD_WIDTH - 1)

append_sentinel(buf) == buf \o Rep(SENTINEL_CHAR, PAD_WIDTH)

RECURSIVE AppendBases(_, _)
AppendBases(buf, line) ==
    IF line = <<>> THEN buf
    ELSE AppendBases(IF Head(line) \in {LF, CR} THEN buf
                     ELSE Append(buf, normalize_base(Head(line))), Tail(line))

\* the loop body for one line; st = [buffer, transcripts, current, first_sequence]
ref_line(st, line) ==
    IF Len(line) <= 1 THEN st
    ELSE IF Head(line) = ">" THEN
        LET closing == ~st.first_sequence /\ st.current # 0
            ts == IF closing
                  THEN [st.transcripts EXCEPT ![st.current].length =
                            Len(st.buffer) - st.transcripts[st.current].start]
                  ELSE st.transcripts
            buf == IF closing THEN append_sentinel(st.buffer) ELSE st.buffer
            h == parse_fasta_header(line)
        IN  [buffer |-> buf,
             transcripts |-> Append(ts, [start |-> Len(buf), length |-> 0,
                                         transcript_id |-> h.transcript_id,
                                         gene_symbol |-> h.gene_symbol]),
             current |-> Len(ts) + 1,
             first_sequence |-> FALSE]
    ELSE IF st.current = 0 THEN st
    ELSE [st EXCEPT !.buffer = AppendBases(@, line)]

\* after the loop: the two failure exits, the last record's length, the
\* trailing sentinel run
ref_finish(st) ==
    IF Len(st.transcripts) = 0 \/ st.current = 0
    THEN [status |-> "error", buffer |-> <<>>, transcripts |-> <<>>]
    ELSE LET ts == [st.transcripts EXCEPT ![st.current].length =
                        Len(st.buffer) - st.transcripts[st.current].start]
         IN  IF Len(st.buffer) = 0
             THEN [status |-> "error", buffer |-> <<>>, transcripts |-> <<>>]
             ELSE [status |-> "ok", buffer |-> append_sentinel(st.buffer),
                   transcripts |-> ts]

RefState == [buffer |-> buffer, transcripts |-> transcripts, current |-> current,
             first_sequence |-> first_sequence]

LoadRefLine ==
    /\ rstatus = "lines"
    /\ rline < Len(ref_file)
    /\ LET st == ref_line(RefState, ref_file[rline + 1]) IN
       /\ buffer' = st.buffer
       /\ transcripts' = st.transcripts
       /\ current' = st.current
       /\ first_sequence' = st.first_sequence
    /\ rline' = rline + 1
    /\ UNCHANGED <<ref_file, rstatus>>

LoadRefEnd ==
    /\ rstatus = "lines"
    /\ rline = Len(ref_file)
    /\ LET fin == ref_finish(RefState) IN
       /\ rstatus' = fin.status
       /\ buffer' = fin.buffer
       /\ transcripts' = fin.transcripts
    /\ UNCHANGED <<ref_file, rline, current, first_sequence>>

RefStart == [buffer |-> <<>>, transcripts |-> <<>>, current |-> 0,
             first_sequence |-> TRUE]

RECURSIVE ref_lines(_, _, _)
ref_lines(file, i, st) ==
    IF i > Len(file) THEN st ELSE ref_lines(file, i + 1, ref_line(st, file[i]))

load_reference_sequence(file) == ref_finish(ref_lines(file, 1, RefStart))

----------------------------------------------------------------------------
(* compute_valid_positions: one pass from the high end of the buffer *)

\* the loop body with its test off by one: consecutive > max_length
valid_step_strict(st, sequence, idx, max_length) ==
    IF At(sequence, idx) = SENTINEL_CHAR
    THEN [consecutive |-> 0, valid |-> <<0>> \o st.valid]
    ELSE [consecutive |-> st.consecutive + 1,
          valid |-> <<IF st.consecutive + 1 > max_length THEN 1 ELSE 0>> \o st.valid]

\* the loop body at idx; st = [consecutive, valid], valid the bytes written
\* so far (those of idx+1 .. length-1)
valid_step(st, sequence, idx, max_length) ==
    IF At(sequence, idx) = SENTINEL_CHAR
    THEN [consecutive |-> 0, valid |-> <<0>> \o st.valid]
    ELSE [consecutive |-> st.consecutive + 1,
          valid |-> <<IF st.consecutive + 1 >= max_length THEN 1 ELSE 0>> \o st.valid]

\* the loop over idx = hi-1 down to lo, in that order: the upper half runs
\* first, then the lower half from the state it leaves (the range is halved,
\* and the upper half's state looked at before going on, only to keep the
\* evaluation shallow)
RECURSIVE valid_pass(_, _, _, _, _)
valid_pass(st, sequence, lo, hi, max_length) ==
    IF lo >= hi THEN st
    ELSE IF hi - lo = 1 THEN valid_step(st, sequence, lo, max_length)
    ELSE LET mid == (lo + hi) \div 2
             upper == valid_pass(st, sequence, mid, hi, max_length)
         IN  IF upper.consecutive < 0 THEN upper
             ELSE valid_pass(upper, sequence, lo, mid, max_length)

compute_valid_positions(sequence, max_length) ==
    valid_pass([consecutive |-> 0, valid |-> <<>>], sequence, 0, Len(sequence),
               max_length).valid

\* main: the clamp of max_guide_len and the search limit
ClampMaxLen(m) == IF m > MAX_GUIDE_LEN THEN MAX_GUIDE_LEN ELSE m

SearchLimit(B) == IF Len(B) >= PAD_WIDTH THEN Len(B) - (PAD_WIDTH - 1) ELSE 0

----------------------------------------------------------------------------
(* The matching kernel.  A uint32_t mask is its 32 bits, bit i at index i. *)

Lanes == 0..(PAD_WIDTH - 1)

\* the mask one bit short: (1u << (length - 1)) - 1u
mask_one_short(length) == [i \in Lanes |-> IF i < length - 1 THEN 1 ELSE 0]

mask_for_length(length) ==
    IF length >= 32 THEN [i \in Lanes |-> 1]
    ELSE [i \in Lanes |-> IF i < length THEN 1 ELSE 0]

\* padded[j]: the guide's bytes, then sentinels up to PAD_WIDTH
Padded(g) == [i \in Lanes |-> IF i < g.length THEN At(g.sequence, i) ELSE SENTINEL_CHAR]

\* _mm256_movemask_epi8(_mm256_cmpeq_epi8(ref_vec, query_vec))
EqMask(B, p, query) == [i \in Lanes |-> IF At(B, p + i) = query[i] THEN 1 ELSE 0]

BitAnd(a, b) == [i \in Lanes |-> IF a[i] = 1 /\ b[i] = 1 THEN 1 ELSE 0]

\* __builtin_popcount: the number of set bits
popcount(m) == Cardinality({i \in Lanes : m[i] = 1})

mismatches_avx2(B, p, g) ==
    g.length - popcount(BitAnd(EqMask(B, p, Padded(g)), mask_for_length(g.length)))

\* the byte loop, leaving as soon as mismatches exceeds MAX_MISMATCHES
RECURSIVE scalar_loop(_, _, _, _, _)
scalar_loop(B, p, g, k, mismatches) ==
    IF k >= g.length THEN mismatches
    ELSE IF At(B, p + k) # At(g.sequence, k)
         THEN IF mismatches + 1 > MAX_MISMATCHES THEN mismatches + 1
              ELSE scalar_loop(B, p, g, k + 1, mismatches + 1)
         ELSE scalar_loop(B, p, g, k + 1, mismatches)

mismatches_scalar(B, p, g) == scalar_loop(B, p, g, 0, 0)

\* the list without its duplicate scan
hitlist_add_no_scan(list, value) == Append(list, value)

hitlist_add(list, value) ==
    IF \E i \in 1..Len(list) : list[i] = value THEN list ELSE Append(list, value)

\* the cursor loop at the top of each position
RECURSIVE advance_cursor(_, _, _, _, _)
advance_cursor(tidx, boundary, p, R, search_limit) ==
    IF tidx + 1 < Len(R) /\ p >= boundary
    THEN advance_cursor(tidx + 1,
                        IF tidx + 2 < Len(R) THEN At(R, tidx + 2).start ELSE search_limit,
                        p, R, search_limit)
    ELSE [transcript_idx |-> tidx, next_boundary |-> boundary]

\* a kernel that trusts the sentinel padding to spoil every bad window
guide_tested_sentinel_only(V, p, tinfo, len) == p >= tinfo.start

\* whether the guide of length len is compared at position p: the position
\* is valid, lies in the cursor's record, and the window ends inside it
guide_tested(V, p, tinfo, len) ==
    /\ At(V, p) # 0
    /\ p >= tinfo.start
    /\ p < tinfo.start + tinfo.length
    /\ p + len <= tinfo.start + tinfo.length

\* the exact-hit insert outside its mismatches == 0 test
tally_every_hit(acc, mismatches, tidx) ==
    IF mismatches <= MAX_MISMATCHES
    THEN [counts |-> [acc.counts EXCEPT ![mismatches] = @ + 1],
          hits |-> Append(acc.hits, tidx)]
    ELSE acc

\* what one compared window adds to the guide's accumulators
tally(acc, mismatches, tidx) ==
    IF mismatches <= MAX_MISMATCHES
    THEN [counts |-> [acc.counts EXCEPT ![mismatches] = @ + 1],
          hits |-> IF mismatches = 0 THEN hitlist_add(acc.hits, tidx) ELSE acc.hits]
    ELSE acc

ZeroCounts == [mm \in 0..MAX_MISMATCHES |-> 0]

\* k = [transcript_idx, next_boundary, local_counts, mm0_hits, counted]
KernelStart(group, R, search_limit) ==
    [transcript_idx |-> 0,
     next_boundary |-> IF Len(R) > 1 THEN At(R, 1).start ELSE search_limit,
     local_counts |-> [j \in 1..Len(group) |-> ZeroCounts],
     mm0_hits |-> [j \in 1..Len(group) |-> <<>>],
     counted |-> {}]

\* the body of the position loop, for every guide of the group
scan_pos(k, p, avx2, B, V, search_limit, group, R) ==
    LET c == advance_cursor(k.transcript_idx, k.next_boundary, p, R, search_limit)
        tinfo == At(R, c.transcript_idx)
        mm(j) == IF avx2 THEN mismatches_avx2(B, p, group[j])
                 ELSE mismatches_scalar(B, p, group[j])
        tested(j) == guide_tested(V, p, tinfo, group[j].length)
        after(j) == IF tested(j)
                    THEN tally([counts |-> k.local_counts[j], hits |-> k.mm0_hits[j]],
                               mm(j), c.transcript_idx)
                    ELSE [counts |-> k.local_counts[j], hits |-> k.mm0_hits[j]]
    IN  [transcript_idx |-> c.transcript_idx,
         next_boundary |-> c.next_boundary,
         local_counts |-> [j \in 1..Len(group) |-> after(j).counts],
         mm0_hits |-> [j \in 1..Len(group) |-> after(j).hits],
         counted |-> k.counted \cup
             {<<j, p, mm(j)>> : j \in {i \in 1..Len(group) :
                                        tested(i) /\ mm(i) <= MAX_MISMATCHES}}]

\* the position loop over pos = lo .. hi-1, in that order: the lower half
\* runs first, then the upper half from the state it leaves (halved, and the
\* lower half's state looked at before going on, only to keep the evaluation
\* shallow)
RECURSIVE scan_range(_, _, _, _, _, _, _, _, _)
scan_range(k, lo, hi, avx2, B, V, search_limit, group, R) ==
    IF lo >= hi THEN k
    ELSE IF hi - lo = 1 THEN scan_pos(k, lo, avx2, B, V, search_limit, group, R)
    ELSE LET mid == (lo + hi) \div 2
             lower == scan_range(k, lo, mid, avx2, B, V, search_limit, group, R)
         IN  IF lower.transcript_idx < 0 THEN lower
             ELSE scan_range(lower, mid, hi, avx2, B, V, search_limit, group, R)

\* the GuideResult cells the group writes at its end
GroupResults(k) ==
    [j \in 1..Len(k.local_counts) |->
        [counts |-> k.local_counts[j], mm0_transcripts |-> k.mm0_hits[j]]]

process_group(avx2, B, V, search_limit, group, R) ==
    GroupResults(scan_range(KernelStart(group, R, search_limit), 0, search_limit,
                            avx2, B, V, search_limit, group, R))

process_group_avx2(B, V, search_limit, group, R) ==
    process_group(TRUE, B, V, search_limit, group, R)

process_group_scalar(B, V, search_limit, group, R) ==
    process_group(FALSE, B, V, search_limit, group, R)

----------------------------------------------------------------------------
(* main: the guide groups and one kernel call, position by position *)

\* the group's first slot without the factor GROUP_SIZE
GroupStartUnscaled(group_idx) == group_idx

GroupStart(group_idx) == group_idx * GROUP_SIZE

GroupSize(n_guides, group_idx) == Min(n_guides - GroupStart(group_idx), GROUP_SIZE)

TotalGroups(n_guides) == (n_guides + GROUP_SIZE - 1) \div GROUP_SIZE

GroupOf(gs, group_idx) ==
    SubSeq(gs, GroupStart(group_idx) + 1,
           GroupStart(group_idx) + GroupSize(Len(gs), group_idx))

\* memset(results, 0, ...)
ZeroResults(n) == [i \in 1..n |-> [counts |-> ZeroCounts, mm0_transcripts |-> <<>>]]

KernelState == [transcript_idx |-> transcript_idx, next_boundary |-> next_boundary,
                local_counts |-> local_counts, mm0_hits |-> mm0_hits,
                counted |-> counted]

ScanPosition ==
    /\ kstatus = "scan"
    /\ pos < SearchLimit(buffer)
    /\ LET k == scan_pos(KernelState, pos, use_avx2, buffer, valid_pos,
                         SearchLimit(buffer), GroupOf(guides, 0), transcripts)
       IN  /\ transcript_idx' = k.transcript_idx
           /\ next_boundary' = k.next_boundary
           /\ local_counts' = k.local_counts
           /\ mm0_hits' = k.mm0_hits
           /\ counted' = k.counted
    /\ pos' = pos + 1
    /\ UNCHANGED <<use_avx2, valid_pos, kstatus, results>>

WriteResults ==
    /\ kstatus = "scan"
    /\ pos >= SearchLimit(buffer)
    /\ results' = [i \in 1..Len(results) |->
                      IF i <= Len(local_counts) THEN GroupResults(KernelState)[i]
                      ELSE results[i]]
    /\ kstatus' = "done"
    /\ UNCHANGED <<use_avx2, valid_pos, pos, transcript_idx, next_boundary,
                   local_counts, mm0_hits, counted>>

----------------------------------------------------------------------------
(* main: the parallel loop over guide groups, then the output rows *)

\* a thread asks the dynamic schedule for an iteration and gets one of those
\* not yet handed out
TakeGroup(w) ==
    /\ workers[w].pc = "idle"
    /\ \E g \in pending :
          /\ pending' = pending \ {g}
          /\ workers' = [workers EXCEPT ![w] =
                            [pc |-> "scan", group |-> g, j |-> 0, local |-> <<>>]]
    /\ UNCHANGED <<nthreads, results, writes, out>>

\* the position loop of the kernel call, on the thread's own accumulators
RunKernel(w) ==
    /\ workers[w].pc = "scan"
    /\ workers' = [workers EXCEPT ![w].pc = "write",
                                  ![w].local = process_group(use_avx2, buffer, valid_pos,
                                                   SearchLimit(buffer),
                                                   GroupOf(guides, workers[w].group),
                                                   transcripts)]
    /\ UNCHANGED <<nthreads, pending, results, writes, out>>

\* one turn of the loop at the kernel's end: results[group_start + j] is set
WriteSlot(w) ==
    LET slot == GroupStart(workers[w].group) + workers[w].j + 1 IN
    /\ workers[w].pc = "write"
    /\ workers[w].j < Len(workers[w].local)
    /\ results' = [results EXCEPT ![slot] = workers[w].local[workers[w].j + 1]]
    /\ writes' = [writes EXCEPT ![slot] = Append(@, w)]
    /\ workers' = [workers EXCEPT ![w].j = @ + 1]
    /\ UNCHANGED <<nthreads, pending, out>>

FinishGroup(w) ==
    /\ workers[w].pc = "write"
    /\ workers[w].j >= Len(workers[w].local)
    /\ workers' = [workers EXCEPT ![w].pc = "idle"]
    /\ UNCHANGED <<nthreads, pending, results, writes, out>>

\* the transcript ids of a guide's exact-hit records, in list order
RowTranscripts(res, R) ==
    LET kept == SelectSeq(res.mm0_transcripts, LAMBDA t : t < Len(R)) IN
    [i \in 1..Len(kept) |-> At(R, kept[i]).transcript_id]

\* the gene symbols of those records, each once, in order of first appearance
RECURSIVE GeneList(_, _, _)
GeneList(list, R, seen) ==
    IF list = <<>> THEN seen
    ELSE LET t == Head(list) IN
         IF t >= Len(R) \/ \E i \in 1..Len(seen) : seen[i] = At(R, t).gene_symbol
         THEN GeneList(Tail(list), R, seen)
         ELSE GeneList(Tail(list), R, Append(seen, At(R, t).gene_symbol))

OutputRow(g, res, R) ==
    [gene |-> g.gene, sequence |-> g.sequence, counts |-> res.counts,
     mm0_transcripts |-> RowTranscripts(res, R),
     mm0_genes |-> GeneList(res.mm0_transcripts, R, <<>>)]

\* after the loop's barrier: the row of guide i, i ascending
EmitRow ==
    /\ pending = {}
    /\ \A w \in 1..nthreads : workers[w].pc = "idle"
    /\ Len(out) < Len(guides)
    /\ out' = Append(out, OutputRow(guides[Len(out) + 1], results[Len(out) + 1],
                                    transcripts))
    /\ UNCHANGED <<nthreads, pending, workers, results, writes>>

----------------------------------------------------------------------------
(* Input files of the bounded runs *)

GuideHeader == <<"G", "e", "n", "e", ",", "S", "e", "q", LF>>

RowPlain == <<"g", "1", ",", "A", "C", "G", "T", LF>>
RowSpaced == <<" ", "g", "2", " ", ",", " ", "A", "C", "G", "T", " ", LF>>
RowNoSeq == <<"g", "3", ",", LF>>
RowLong == <<"g", "4", ",">> \o Rep("A", MAX_GUIDE_LEN + 1) \o <<LF>>
RowFull == <<"g", "5", ",">> \o Rep("C", MAX_GUIDE_LEN) \o <<CR, LF>>
RowLower == <<"g", "6", ",", "a", "c", "g", "u", ",", "x", LF>>
RowBlank == <<LF>>
RowOneField == <<"g", "7", LF>>

GuideRowPool == {RowPlain, RowSpaced, RowNoSeq, RowLong, RowFull, RowLower,
                 RowBlank, RowOneField}

SeqsUpTo(S, n) == UNION {[1..m -> S] : m \in 0..n}

GuideFiles == {<<>>} \cup {<<GuideHeader>> \o rows : rows \in SeqsUpTo(GuideRowPool, MaxGuideRows)}

HdrT1 == <<">", "t", "1", "|", "|", "|", "|", "|", "G", "1", LF>>
HdrR1 == <<">", "r", "1", "|", "|", "|", "|", "|", "G", "A", LF>>
HdrR2 == <<">", "r", "2", "|", "|", "|", "|", "|", "G", "B", LF>>
HdrFull == <<">", "t", "2", "|", "a", "|", "b", "|", "c", "|", "d", "|", " ", "G", "2", " ", "|", "e", CR, LF>>
HdrBare == <<">", "t", "3", LF>>
BasesAcgt == <<"A", "C", "G", "T", LF>>
BasesLower == <<"a", "c", "u", "R", CR, LF>>

\* a base line holding the sentinel's own byte, a blank and a lower-case n
BasesOdd == <<"X", " ", "n", LF>>

FastaLinePool == {HdrT1, HdrR1, HdrR2, HdrFull, HdrBare, BasesAcgt, BasesLower,
                  BasesOdd, <<LF>>}

FastaFiles == SeqsUpTo(FastaLinePool, MaxFastaLines)

\* kernel runs: guides and records taken as runs of consecutive pool entries
KernelGuidePool ==
    << <<"g", "1", ",", "A", "C", "G", "T", LF>>,
       <<"g", "2", ",", "A", "C", LF>>,
       <<"g", "3", ",", "A", "A", "A", "A", LF>>,
       <<"g", "4", ",", "T", "T", "T", "T", "T", "T", LF>>,
       <<"g", "5", ",", "A", "C", "N", "T", LF>> >>

KernelRecordPool ==
    << <<HdrR1, <<"A", "C", LF>>>>,
       <<HdrR2, <<"G", "T", LF>>>>,
       <<HdrFull, <<"A", "C", "G", "T", LF>>>>,
       <<HdrT1, <<"A", "C", "G", "T", LF>>, <<"A", "C", "G", "T", LF>>>>,
       <<HdrBare>>,
       <<HdrR1, <<"A", "A", "A", "A", "A", "C", "A", "A", "A", "T", "A", "A", LF>>>>,
       <<HdrR2, <<"A", "C", "N", "T", "A", "C", "G", "T", LF>>>> >>

\* n consecutive entries of pool starting after offset o, wrapping round
Run(pool, o, n) == [i \in 1..n |-> pool[((o + i - 1) % Len(pool)) + 1]]

RECURSIVE Flatten(_)
Flatten(ss) == IF ss = <<>> THEN <<>> ELSE Head(ss) \o Flatten(Tail(ss))

KernelGuideFiles ==
    {<<GuideHeader>> \o Run(KernelGuidePool, o, n) :
        o \in 0..(Len(KernelGuidePool) - 1), n \in 1..MaxKernelGuides}

ParGuideFiles ==
    {<<GuideHeader>> \o Run(KernelGuidePool, 0, n) : n \in 1..MaxParGuides}

ParRefFiles == {Flatten(Run(KernelRecordPool, o, 2)) : o \in {0, 2}}

KernelRefFiles ==
    {Flatten(Run(KernelRecordPool, o, n)) :
        o \in 0..(Len(KernelRecordPool) - 1), n \in 1..MaxKernelRecords}

----------------------------------------------------------------------------
(* Specifications *)

GuidesOff ==
    /\ guides_file = <<>> /\ gline = 0 /\ guides = <<>> /\ max_len = 0
    /\ gstatus = "off"

RefOff ==
    /\ ref_file = <<>> /\ rline = 0 /\ buffer = <<>> /\ transcripts = <<>>
    /\ current = 0 /\ first_sequence = TRUE /\ rstatus = "off"

KernelOff ==
    /\ use_avx2 = TRUE /\ valid_pos = <<>> /\ pos = 0 /\ transcript_idx = 0
    /\ next_boundary = 0 /\ local_counts = <<>> /\ mm0_hits = <<>>
    /\ counted = {} /\ kstatus = "off"

ParOff ==
    /\ nthreads = 0 /\ pending = {} /\ workers = <<>> /\ writes = <<>> /\ out = <<>>

MainOff == mpc = "off" /\ out_file = "absent"

\* guide ingest alone
InitGuides ==
    /\ guides_file \in GuideFiles
    /\ gline = 0 /\ guides = <<>> /\ max_len = 0 /\ gstatus = "header"
    /\ RefOff /\ KernelOff /\ ParOff /\ MainOff /\ results = <<>>

NextGuides ==
    \/ LoadGuidesHeader /\ UNCHANGED <<rvars, kvars, pvars, mvars>>
    \/ LoadGuidesRow /\ UNCHANGED <<rvars, kvars, pvars, mvars>>
    \/ LoadGuidesEnd /\ UNCHANGED <<rvars, kvars, pvars, mvars>>

SpecGuides == InitGuides /\ [][NextGuides]_vars

\* reference loading alone
InitRef ==
    /\ ref_file \in FastaFiles
    /\ rline = 0 /\ buffer = <<>> /\ transcripts = <<>> /\ current = 0
    /\ first_sequence = TRUE /\ rstatus = "lines"
    /\ GuidesOff /\ KernelOff /\ ParOff /\ MainOff /\ results = <<>>

NextRef ==
    \/ LoadRefLine /\ UNCHANGED <<gvars, kvars, pvars, mvars>>
    \/ LoadRefEnd /\ UNCHANGED <<gvars, kvars, pvars, mvars>>

SpecRef == InitRef /\ [][NextRef]_vars

\* main after both loaders returned
Ingested(gf, rf) ==
    LET G == load_guides(gf)
        R == load_reference_sequence(rf)
    IN  /\ G.status = "ok" /\ R.status = "ok"
        /\ guides_file = gf /\ gline = Len(gf) /\ guides = G.guides
        /\ max_len = G.max_len /\ gstatus = "ok"
        /\ ref_file = rf /\ rline = Len(rf) /\ buffer = R.buffer
        /\ transcripts = R.transcripts /\ current = Len(R.transcripts)
        /\ first_sequence = FALSE /\ rstatus = "ok"
        /\ valid_pos = compute_valid_positions(buffer, ClampMaxLen(max_len))
        /\ results = ZeroResults(Len(guides))

\* the parallel loop of main with nthreads threads, then the rows
InitPar ==
    /\ \E gf \in ParGuideFiles, rf \in ParRefFiles : Ingested(gf, rf)
    /\ use_avx2 \in BOOLEAN
    /\ pos = 0 /\ transcript_idx = 0 /\ next_boundary = 0 /\ local_counts = <<>>
    /\ mm0_hits = <<>> /\ counted = {} /\ kstatus = "off"
    /\ nthreads \in 1..MaxThreads
    /\ pending = 0..(TotalGroups(Len(guides)) - 1)
    /\ workers = [w \in 1..nthreads |->
                     [pc |-> "idle", group |-> 0, j |-> 0, local |-> <<>>]]
    /\ writes = [i \in 1..Len(guides) |-> <<>>]
    /\ out = <<>>
    /\ MainOff

ParUnchanged == UNCHANGED <<gvars, rvars, kvars, mvars>>

NextPar ==
    \/ \E w \in 1..nthreads : TakeGroup(w) /\ ParUnchanged
    \/ \E w \in 1..nthreads : RunKernel(w) /\ ParUnchanged
    \/ \E w \in 1..nthreads : WriteSlot(w) /\ ParUnchanged
    \/ \E w \in 1..nthreads : FinishGroup(w) /\ ParUnchanged
    \/ EmitRow /\ ParUnchanged

SpecPar == InitPar /\ [][NextPar]_vars

\* one kernel call on the first group, with either backend
InitKernel ==
    /\ \E gf \in KernelGuideFiles, rf \in KernelRefFiles : Ingested(gf, rf)
    /\ use_avx2 \in BOOLEAN
    /\ pos = 0
    /\ LET k == KernelStart(GroupOf(guides, 0), transcripts, SearchLimit(buffer)) IN
       /\ transcript_idx = k.transcript_idx
       /\ next_boundary = k.next_boundary
       /\ local_counts = k.local_counts
       /\ mm0_hits = k.mm0_hits
       /\ counted = k.counted
    /\ kstatus = "scan"
    /\ ParOff /\ MainOff

NextKernel ==
    \/ ScanPosition /\ UNCHANGED <<gvars, rvars, nthreads, pending, workers, writes, out, mvars>>
    \/ WriteResults /\ UNCHANGED <<gvars, rvars, nthreads, pending, workers, writes, out, mvars>>

SpecKernel == InitKernel /\ [][NextKernel]_vars

----------------------------------------------------------------------------
(* What the claims speak of, stated on the loaded reference *)

RECURSIVE SumCounts(_, _)
SumCounts(c, k) == IF k < 0 THEN 0 ELSE c[k] + SumCounts(c, k - 1)

TotalCount(c) == SumCounts(c, MAX_MISMATCHES)

\* indices (0-based) of the records whose bases contain the window [p, p+L)
RecordsHolding(p, L) ==
    {r \in 0..(Len(transcripts) - 1) :
        /\ At(transcripts, r).start <= p
        /\ p + L <= At(transcripts, r).start + At(transcripts, r).length}

Hamming(p, seq) == Cardinality({i \in 0..(Len(seq) - 1) : At(buffer, p + i) # At(seq, i)})

HasSentinel(p, L) == \E i \in 0..(L - 1) : At(buffer, p + i) = SENTINEL_CHAR

\* positions whose window lies inside one record at Hamming distance k
WindowsAt(g, k) ==
    {p \in 0..(Len(buffer) - g.length) :
        RecordsHolding(p, g.length) # {} /\ Hamming(p, g.sequence) = k}

\* the windows of length L the records offer: sum over r of max(0, r.length - L + 1)
RECURSIVE WindowBound(_, _)
WindowBound(L, r) ==
    IF r < 0 THEN 0
    ELSE (IF At(transcripts, r).length - L + 1 > 0
          THEN At(transcripts, r).length - L + 1 ELSE 0) + WindowBound(L, r - 1)

StrictlyAscending(list) == \A i \in 1..(Len(list) - 1) : list[i] < list[i + 1]

Range(list) == {list[i] : i \in 1..Len(list)}

KernelGroup == GroupOf(guides, 0)

\* C1: for every guide and every k in 0..5 the reported MM_k is the number of
\* positions whose window lies inside one record at Hamming distance exactly
\* k, whatever the lengths of the other guides of the run.
C1_CountsAreWindowCounts ==
    kstatus = "done" =>
        \A j \in 1..Len(KernelGroup) : \A k \in 0..MAX_MISMATCHES :
            results[j].counts[k] = Cardinality(WindowsAt(guides[j], k))

\* C2: no position is counted in any bucket, and no record enters the exact
\* hit list, when the guide's window there holds a sentinel byte or runs past
\* the end of the record holding the position; every increment of a bucket is
\* one such counted position.
C2_NoWindowAcrossRecords ==
    kstatus \in {"scan", "done"} =>
        /\ \A c \in counted :
              /\ ~HasSentinel(c[2], guides[c[1]].length)
              /\ RecordsHolding(c[2], guides[c[1]].length) # {}
        /\ \A j \in 1..Len(KernelGroup) :
              /\ TotalCount(local_counts[j]) = Cardinality({c \in counted : c[1] = j})
              /\ \A t \in Range(mm0_hits[j]) :
                    \E c \in counted :
                        c[1] = j /\ c[3] = 0 /\ t \in RecordsHolding(c[2], guides[j].length)

\* scenario D: ACGT against the records AC and GT, the sweep finished
C2_Witness ==
    /\ kstatus = "done"
    /\ Len(transcripts) = 2
    /\ SubSeq(buffer, 1, 2) = <<"A", "C">>
    /\ SubSeq(buffer, PAD_WIDTH + 3, PAD_WIDTH + 4) = <<"G", "T">>
    /\ guides[1].sequence = <<"A", "C", "G", "T">>
    /\ results[1].counts = ZeroCounts
    /\ results[1].mm0_transcripts = <<>>

\* C3: on the same buffer, mask, records and group the two backends write
\* the same counts[0..5] and the same exact-hit record list for every guide.
C3_BackendsAgree ==
    kstatus = "done" =>
        SubSeq(results, 1, Len(KernelGroup)) =
            IF use_avx2
            THEN process_group_scalar(buffer, valid_pos, SearchLimit(buffer),
                                      KernelGroup, transcripts)
            ELSE process_group_avx2(buffer, valid_pos, SearchLimit(buffer),
                                    KernelGroup, transcripts)

\* the SIMD backend finished a guide longer than MAX_MISMATCHES that has both
\* counted windows and windows the scalar loop leaves early
C3_Witness ==
    /\ kstatus = "done"
    /\ use_avx2
    /\ \E j \in 1..Len(KernelGroup) :
          /\ guides[j].length > MAX_MISMATCHES
          /\ TotalCount(results[j].counts) > 0
          /\ \E p \in 0..(SearchLimit(buffer) - 1) :
                /\ guide_tested(valid_pos, p, At(transcripts, 0), guides[j].length)
                /\ mismatches_scalar(buffer, p, guides[j]) > MAX_MISMATCHES

\* C6: when the group is done, a guide's mm0 list holds exactly the records in
\* which an exact hit was counted, each once, in strictly ascending order.
C6_ExactHitRecords ==
    kstatus = "done" =>
        \A j \in 1..Len(KernelGroup) :
            /\ StrictlyAscending(results[j].mm0_transcripts)
            /\ Range(results[j].mm0_transcripts) =
                   UNION {RecordsHolding(c[2], guides[j].length) :
                             c \in {d \in counted : d[1] = j /\ d[3] = 0}}

\* exact hits in two records, two of them in the same record
C6_Witness ==
    /\ kstatus = "done"
    /\ \E j \in 1..Len(KernelGroup) :
          /\ results[j].mm0_transcripts = <<0, 1>>
          /\ results[j].counts[0] = 3

\* C7: counts[0] >= |mm0_records| and the buckets sum to at most the number
\* of windows of the guide's length the records offer.
C7_HistogramSanity ==
    kstatus = "done" =>
        \A j \in 1..Len(KernelGroup) :
            /\ results[j].counts[0] >= Len(results[j].mm0_transcripts)
            /\ TotalCount(results[j].counts)
                   <= WindowBound(guides[j].length, Len(transcripts) - 1)

\* a guide with more exact hits than records, and one whose buckets fall
\* short of the windows on offer
C7_Witness ==
    /\ kstatus = "done"
    /\ \E j \in 1..Len(KernelGroup) :
          /\ results[j].counts[0] > Len(results[j].mm0_transcripts)
          /\ Len(results[j].mm0_transcripts) > 0
    /\ \E j \in 1..Len(KernelGroup) :
          /\ 0 < TotalCount(results[j].counts)
          /\ TotalCount(results[j].counts)
                 < WindowBound(guides[j].length, Len(transcripts) - 1)

----------------------------------------------------------------------------
(* The input files as the claims read them *)

\* s split on sep, empty fields kept
RECURSIVE SplitOn(_, _)
SplitOn(s, sep) ==
    LET n == strcspn(s, {sep}) IN
    IF n = Len(s) THEN <<s>>
    ELSE <<SubSeq(s, 1, n)>> \o SplitOn(SubSeq(s, n + 2, Len(s)), sep)

IsHeaderLine(line) == Len(line) > 1 /\ Head(line) = ">"

\* the header lines among the first n lines of the FASTA file, in order
HeadersRead(n) == SelectSeq(SubSeq(ref_file, 1, n), IsHeaderLine)

\* field n (0-based) of a header's body by position, trimmed; absent or empty
\* fields give the default
PositionalField(line, n, default) ==
    LET fields == SplitOn(StripLineEnd(Tail(line)), "|") IN
    IF n < Len(fields) /\ trim_whitespace_inplace(At(fields, n)) # <<>>
    THEN trim_whitespace_inplace(At(fields, n)) ELSE default

\* C5: a header's body is split on '|' into positional fields, empty fields
\* keeping their position: field 0 is the transcript id and field 5 the gene
\* symbol, so '>t1|||||G1' gives 't1' and 'G1'.
C5_HeaderFieldsByPosition ==
    rstatus \in {"lines", "ok"} =>
        \A k \in 1..Len(transcripts) :
            /\ transcripts[k].transcript_id =
                   PositionalField(HeadersRead(rline)[k], 0, UNKNOWN_ID)
            /\ transcripts[k].gene_symbol =
                   PositionalField(HeadersRead(rline)[k], 5, UNKNOWN_GENE)

\* C9: the loader fails for every FASTA input in which no record contributes
\* a base byte, consecutive header lines without base lines included.
C9_NoBasesFails ==
    rstatus = "ok" => \E i \in 1..Len(buffer) : buffer[i] # SENTINEL_CHAR

\* a data row: at least two comma-separated fields
IsDataRow(line) == Len(line) > 1 /\ strsep(line).rest # NoCursor

GeneField(line) == strsep(line).token

SequenceField(line) == strsep(strsep(line).rest).token

\* the sequence cell with surrounding whitespace removed
TrimmedCell(line) == trim_whitespace_inplace(SequenceField(line))

DataRows == {i \in 2..Len(guides_file) : IsDataRow(guides_file[i])}

IsStoredRow(line) == guide_row(line).kind = "guide"

RowsStored(n) == SelectSeq(SubSeq(guides_file, 2, n), IsStoredRow)

\* C10: both fields lose their leading and trailing whitespace before the
\* sequence is normalized and measured: a cell written with spaces around it
\* is stored as the same cell without them.
C10_BothFieldsTrimmed ==
    gstatus \in {"rows", "ok"} =>
        \A k \in 1..Len(guides) :
            LET row == RowsStored(gline)[k] IN
            /\ guides[k].gene = trim_whitespace_inplace(GeneField(row))
            /\ guides[k].sequence = NormalizeSeq(TrimmedCell(row))
            /\ guides[k].length = Len(TrimmedCell(row))

\* the run with one thread: the groups in index order, each group's cells
\* following the previous group's, then the rows in guide order
RECURSIVE SerialResults(_)
SerialResults(group_idx) ==
    IF group_idx >= TotalGroups(Len(guides)) THEN <<>>
    ELSE process_group(use_avx2, buffer, valid_pos, SearchLimit(buffer),
                       SubSeq(guides, group_idx * GROUP_SIZE + 1,
                              Min(Len(guides), (group_idx + 1) * GROUP_SIZE)),
                       transcripts)
         \o SerialResults(group_idx + 1)

\* the rows written from a result array
RowsOf(cells) ==
    [i \in 1..Len(cells) |-> OutputRow(guides[i], cells[i], transcripts)]

SerialRows == RowsOf(SerialResults(0))

AfterLoop == pending = {} /\ \A w \in 1..nthreads : workers[w].pc = "idle"

ParDone == kstatus = "off" /\ nthreads > 0 /\ AfterLoop /\ Len(out) = Len(guides)

\* C4: whatever the number of threads and the order in which groups are taken
\* and finished, no result slot is written twice, each slot has been written
\* by one thread when the loop ends, the result array is then that of the
\* one-thread run, and the rows are its rows, one per guide in guide order
\* (each row as it is written is built from its cell of that result array;
\* the finished file is compared with the one-thread run's rows).
C4_ThreadDeterminism ==
    nthreads > 0 =>
        /\ \A i \in 1..Len(writes) : Len(writes[i]) <= 1
        /\ Len(out) <= Len(guides)
        /\ Len(out) > 0 => AfterLoop
        /\ AfterLoop =>
              /\ \A i \in 1..Len(writes) : Len(writes[i]) = 1
              /\ results = SerialResults(0)
              /\ \A i \in 1..Len(out) :
                    out[i] = OutputRow(guides[i], results[i], transcripts)
              /\ Len(out) = Len(guides) => out = SerialRows

\* two threads each wrote slots of the run, the groups were finished out of
\* index order, and every row is out
C4_Witness ==
    /\ ParDone
    /\ nthreads = 2
    /\ writes[1] = <<2>>
    /\ writes[Len(guides)] = <<1>>
    /\ Len(guides) > GROUP_SIZE
    /\ \E i \in 1..Len(out) : out[i].counts[0] > 0

----------------------------------------------------------------------------
(* main from entry to exit.  fopen, malloc and realloc succeed or fail as    *)
(* the environment decides; the loop over the groups is taken as one step    *)
(* that leaves the result array of the one-thread run.                       *)

\* load_guides called from main: fopen or the first xmalloc may fail, then
\* the file decides; n_guides <= 0 ends the run
MainLoadGuides ==
    /\ mpc = "guides"
    /\ \E env_ok \in BOOLEAN :
          LET G == IF env_ok THEN load_guides(guides_file)
                   ELSE [status |-> "error", guides |-> <<>>, max_len |-> 0]
          IN  /\ guides' = G.guides
              /\ max_len' = G.max_len
              /\ gstatus' = G.status
              /\ gline' = IF env_ok THEN Len(guides_file) ELSE 0
              /\ mpc' = IF G.status = "ok" THEN "reference" ELSE "exit_fail"
    /\ UNCHANGED <<guides_file, rvars, kvars, pvars, out_file>>

\* load_reference_sequence called from main: it leaves through exit() on
\* every failure (fopen, xmalloc, realloc, no records, no bytes)
MainLoadReference ==
    /\ mpc = "reference"
    /\ \E env_ok \in BOOLEAN :
          LET R == IF env_ok THEN load_reference_sequence(ref_file)
                   ELSE [status |-> "error", buffer |-> <<>>, transcripts |-> <<>>]
          IN  /\ buffer' = R.buffer
              /\ transcripts' = R.transcripts
              /\ rstatus' = R.status
              /\ rline' = IF env_ok THEN Len(ref_file) ELSE 0
              /\ current' = Len(R.transcripts)
              /\ first_sequence' = (R.transcripts = <<>>)
              /\ mpc' = IF R.status = "ok" THEN "prepare" ELSE "exit_fail"
    /\ UNCHANGED <<ref_file, gvars, kvars, pvars, out_file>>

\* the mask and the zeroed result array, each behind an xmalloc
MainPrepare ==
    /\ mpc = "prepare"
    /\ \E env_ok \in BOOLEAN :
          IF env_ok
          THEN /\ valid_pos' = compute_valid_positions(buffer, ClampMaxLen(max_len))
               /\ results' = ZeroResults(Len(guides))
               /\ mpc' = "search"
          ELSE /\ mpc' = "exit_fail"
               /\ UNCHANGED <<valid_pos, results>>
    /\ UNCHANGED <<gvars, rvars, use_avx2, pos, transcript_idx, next_boundary,
                   local_counts, mm0_hits, counted, kstatus, nthreads, pending,
                   workers, writes, out, out_file>>

HasExactHit(cell) == cell.mm0_transcripts # <<>>

\* the loop over the groups; growing a hit list or copying it to its result
\* slot allocates, which happens only where a guide has an exact hit
MainSearch ==
    /\ mpc = "search"
    /\ \/ /\ results' = SerialResults(0)
          /\ mpc' = "open"
       \/ /\ SelectSeq(SerialResults(0), HasExactHit) # <<>>
          /\ mpc' = "exit_fail"
          /\ UNCHANGED results
    /\ UNCHANGED <<gvars, rvars, kvars, nthreads, pending, workers, writes, out,
                   out_file>>

\* fopen(output_file, "w") and the header line
MainOpenOutput ==
    /\ mpc = "open"
    /\ \E env_ok \in BOOLEAN :
          IF env_ok
          THEN out_file' = "open" /\ mpc' = "rows"
          ELSE out_file' = out_file /\ mpc' = "exit_fail"
    /\ UNCHANGED <<gvars, rvars, kvars, pvars>>

\* the row of guide i; with exact hits the gene list is xmalloc'ed after the
\* row's first columns are written, and xmalloc leaves through exit()
MainEmitRow ==
    /\ mpc = "rows"
    /\ Len(out) < Len(guides)
    /\ \E env_ok \in BOOLEAN :
          IF env_ok
          THEN /\ out' = Append(out, OutputRow(guides[Len(out) + 1],
                                               results[Len(out) + 1], transcripts))
               /\ mpc' = mpc
          ELSE /\ results[Len(out) + 1].mm0_transcripts # <<>>
               /\ mpc' = "exit_fail"
               /\ out' = out
    /\ UNCHANGED <<gvars, rvars, kvars, nthreads, pending, workers, results,
                   writes, out_file>>

\* fclose(out) and return EXIT_SUCCESS
MainFinish ==
    /\ mpc = "rows"
    /\ Len(out) = Len(guides)
    /\ out_file' = "closed"
    /\ mpc' = "exit_ok"
    /\ UNCHANGED <<gvars, rvars, kvars, pvars>>

MainGuideFiles ==
    ParGuideFiles \cup {<<>>, <<GuideHeader>>, <<GuideHeader, RowLong>>,
                        <<GuideHeader, RowNoSeq, RowPlain>>}

MainRefFiles == ParRefFiles \cup {<<>>, <<HdrBare>>, <<BasesAcgt>>}

InitMain ==
    /\ guides_file \in MainGuideFiles
    /\ gline = 0 /\ guides = <<>> /\ max_len = 0 /\ gstatus = "header"
    /\ ref_file \in MainRefFiles
    /\ rline = 0 /\ buffer = <<>> /\ transcripts = <<>> /\ current = 0
    /\ first_sequence = TRUE /\ rstatus = "lines"
    /\ KernelOff /\ ParOff /\ results = <<>>
    /\ mpc = "guides" /\ out_file = "absent"

NextMain ==
    \/ MainLoadGuides
    \/ MainLoadReference
    \/ MainPrepare
    \/ MainSearch
    \/ MainOpenOutput
    \/ MainEmitRow
    \/ MainFinish

SpecMain == InitMain /\ [][NextMain]_vars

\* C11: the output file is opened only after both input files were ingested
\* with success, and a run that ends with an error leaves no output file
\* that was written in part.
C11_NoPartialOutput ==
    /\ out_file # "absent" => gstatus = "ok" /\ rstatus = "ok"
    /\ mpc = "exit_fail" => out_file = "absent"

----------------------------------------------------------------------------
(* The layout of the reference buffer *)

BaseBytes == {"A", "C", "G", "T", "N"}

\* the offset just past record k's bytes (k counted from 1)
RecordEnd(k) == transcripts[k].start + transcripts[k].length

\* buffer[lo .. hi) is exactly PAD_WIDTH bytes, all of them sentinels
SentinelRun(lo, hi) ==
    /\ hi - lo = PAD_WIDTH
    /\ hi <= Len(buffer)
    /\ \A p \in lo..(hi - 1) : At(buffer, p) = SENTINEL_CHAR

\* C12: after the loader succeeds, every record's bytes are base bytes in
\* {A,C,G,T,N}, exactly PAD_WIDTH = 32 sentinel bytes lie between the end of
\* record i and the start of record i+1 (records without base lines
\* included), and exactly PAD_WIDTH sentinel bytes follow the last record.
C12_BufferLayout ==
    rstatus = "ok" =>
        /\ \A k \in 1..Len(transcripts) :
              /\ transcripts[k].length >= 0
              /\ RecordEnd(k) <= Len(buffer)
              /\ \A p \in transcripts[k].start..(RecordEnd(k) - 1) :
                    At(buffer, p) \in BaseBytes
        /\ \A k \in 1..(Len(transcripts) - 1) :
              SentinelRun(RecordEnd(k), transcripts[k + 1].start)
        /\ SentinelRun(RecordEnd(Len(transcripts)), Len(buffer))

\* a record with bases, normalized from lower case and an ambiguity code,
\* followed by a record without base lines
C12_Witness ==
    /\ rstatus = "ok"
    /\ Len(transcripts) = 2
    /\ SubSeq(buffer, 1, transcripts[1].length) = <<"A", "C", "T", "N">>
    /\ transcripts[2].length = 0

----------------------------------------------------------------------------
(* compute_valid_positions on arbitrary buffers *)

MaskBytes == {"A", "N", SENTINEL_CHAR}

MaskBuffers == SeqsUpTo(MaskBytes, MaxMaskLen)

\* the call of compute_valid_positions(sequence, length, max_length)
ComputeValidPositions ==
    /\ mpc = "mask"
    /\ valid_pos' = compute_valid_positions(buffer, max_len)
    /\ mpc' = "masked"
    /\ UNCHANGED <<gvars, rvars, use_avx2, pos, transcript_idx, next_boundary,
                   local_counts, mm0_hits, counted, kstatus, pvars, out_file>>

InitMask ==
    /\ buffer \in MaskBuffers
    /\ max_len \in 1..(MaxMaskLen + 1)
    /\ guides_file = <<>> /\ gline = 0 /\ guides = <<>> /\ gstatus = "off"
    /\ ref_file = <<>> /\ rline = 0 /\ transcripts = <<>> /\ current = 0
    /\ first_sequence = TRUE /\ rstatus = "off"
    /\ KernelOff /\ ParOff /\ results = <<>>
    /\ mpc = "mask" /\ out_file = "absent"

NextMask == ComputeValidPositions

SpecMask == InitMask /\ [][NextMask]_vars

\* C13: for every buffer and every L_max >= 1 the backward pass gives
\* V[p] = 1 exactly for the positions p with p + L_max <= |B| and no sentinel
\* byte in B[p .. p+L_max), and V[p] = 0 for every other position.
C13_MaskIsWindowTest ==
    mpc = "masked" =>
        /\ Len(valid_pos) = Len(buffer)
        /\ \A p \in 0..(Len(buffer) - 1) :
              At(valid_pos, p) =
                  IF p + max_len <= Len(buffer) /\ ~HasSentinel(p, max_len)
                  THEN 1 ELSE 0

\* a mask with a valid position, a position spoilt by a sentinel further on
\* in its window, and a position whose window runs off the buffer's end
C13_Witness ==
    /\ mpc = "masked"
    /\ max_len > 1
    /\ \E p, q, r \in 0..(Len(buffer) - 1) :
          /\ At(valid_pos, p) = 1
          /\ At(valid_pos, q) = 0
          /\ At(buffer, q) # SENTINEL_CHAR
          /\ q + max_len <= Len(buffer)
          /\ At(valid_pos, r) = 0
          /\ At(buffer, r) # SENTINEL_CHAR
          /\ r + max_len > Len(buffer)

====
